---- MODULE Spec2Model ----
(***************************************************************************)
(* The inventory-consistency engine of the e-commerce service: the cart    *)
(* routes (src/routes/carts.py) and the product routes                     *)
(* (src/routes/products.py) over the three MongoDB collections products,   *)
(* carts and users.  Every request handler is a sequence of awaited        *)
(* single-document database operations; each awaited operation is one      *)
(* atomic step, and requests served concurrently interleave between them.  *)
(***************************************************************************)
EXTENDS Integers, Sequences, FiniteSets, TLC

(* ------------------------------ bounds --------------------------------- *)

\* Largest stock_quantity carried by a product create / put / patch request; no
\* new request arrives while a product's stock_quantity is above it.
MaxStock == 2
\* Largest quantity carried by an add-item or update-quantity request.
MaxQty == 2
\* Largest quantity a cart line is let grow to, and most lines a cart is let hold.
MaxLineQty == 2
MaxLines == 2
\* Carts that checkouts may insert, and products that create_product may insert,
\* on top of those of the initial state.
MaxNewCarts == 1
MaxNewProducts == 1

\* Identifiers (ObjectIds, in order of creation) and the workers serving requests.
UserIds == {1, 2}
CartIds == 1..(Cardinality(UserIds) + MaxNewCarts)
ProductIds == 1..(1 + MaxNewProducts)
Workers == {1, 2}

\* The absent identifier (a missing cart_id field, an unset local).
None == 0

(* ------------------------------- state --------------------------------- *)

VARIABLES
    products,        \* the products collection: id -> document
    carts,           \* the carts collection: id -> document
    users,           \* the users collection: id -> document
    next_cart,       \* the next identifier insert_one gives a cart
    next_product,    \* the next identifier insert_one gives a product
    next_user,       \* the next identifier insert_one gives a user
    user_id_unique,  \* whether the unique index on carts.user_id is in place
    req,             \* per worker: the request in service, its position and locals
    hist             \* history of the requests served one at a time

db == <<products, carts, users, next_cart, next_product, next_user, user_id_unique>>
vars == <<products, carts, users, next_cart, next_product, next_user, user_id_unique,
          req, hist>>

NoProduct == [exists |-> FALSE, stock_quantity |-> 0, is_active |-> FALSE]
NoCart == [exists |-> FALSE, user_id |-> None, items |-> <<>>]
NoUser == [exists |-> FALSE, cart_id |-> None]

\* A copy of the collections, taken when a request served alone starts.
NoSnap == [taken |-> FALSE, products |-> <<>>, carts |-> <<>>, users |-> <<>>]
Snap == [taken |-> TRUE, products |-> products, carts |-> carts, users |-> users]

Idle ==
    [op |-> "none", pc |-> "idle", cart_id |-> None, product_id |-> None,
     quantity |-> 0, stock |-> 0, active |-> FALSE, cur |-> 0, pq |-> <<>>,
     user_id |-> None, new_cart_id |-> None, result |-> "none", pre |-> NoSnap]

(* ------------------- single-document operations ------------------------ *)

CartItem(pid, q) == [product_id |-> pid, quantity |-> q]

HasLine(items, pid) == \E i \in 1..Len(items) : items[i].product_id = pid

\* The array element the positional operator "$" and $elemMatch pick: the first match.
LineIndex(items, pid) ==
    CHOOSE i \in 1..Len(items) :
        /\ items[i].product_id = pid
        /\ \A j \in 1..(i - 1) : items[j].product_id # pid

LineQuantity(items, pid) ==
    IF HasLine(items, pid) THEN items[LineIndex(items, pid)].quantity ELSE 0

\* {"$inc": {"items.$.quantity": d}}
IncLine(items, pid, d) ==
    [items EXCEPT ![LineIndex(items, pid)].quantity = @ + d]

\* {"$set": {"items.$.quantity": q}}
SetLine(items, pid, q) ==
    [items EXCEPT ![LineIndex(items, pid)].quantity = q]

\* {"$push": {"items": item}}
PushLine(items, pid, q) == Append(items, CartItem(pid, q))

\* {"$pull": {"items": {"product_id": pid}}}: every matching element goes.
PullLines(items, pid) == SelectSeq(items, LAMBDA l : l.product_id # pid)

\* The number of lines a cart holds for a product.
LineCount(items, pid) == Cardinality({i \in 1..Len(items) : items[i].product_id = pid})

\* product_quantities: the lines grouped by product_id, in order of first occurrence.
RECURSIVE GroupInto(_, _)
GroupInto(acc, items) ==
    IF items = <<>> THEN acc
    ELSE LET l == Head(items) IN
         GroupInto(IF HasLine(acc, l.product_id)
                   THEN IncLine(acc, l.product_id, l.quantity)
                   ELSE Append(acc, l),
                   Tail(items))

product_quantities(items) == GroupInto(<<>>, items)

\* The total quantity over a sequence of lines.
RECURSIVE SumLines(_)
SumLines(items) ==
    IF items = <<>> THEN 0 ELSE Head(items).quantity + SumLines(Tail(items))

\* update_one on the products collection: no document matched leaves it as it is.
SetStock(pid, v) ==
    IF products[pid].exists
    THEN [products EXCEPT ![pid].stock_quantity = v]
    ELSE products

IncStock(pid, d) ==
    IF products[pid].exists
    THEN [products EXCEPT ![pid].stock_quantity = @ + d]
    ELSE products

SetActive(pid, b) ==
    IF products[pid].exists
    THEN [products EXCEPT ![pid].is_active = b]
    ELSE products

\* {"_id": pid, "stock_quantity": {"$gt": 0}, "is_active": False} -> is_active True
Reactivate(pid) ==
    IF /\ products[pid].exists
       /\ products[pid].stock_quantity > 0
       /\ ~products[pid].is_active
    THEN [products EXCEPT ![pid].is_active = TRUE]
    ELSE products

(* ----------------------- request bookkeeping --------------------------- *)

\* A request as it arrives: the operation and its path and body parameters.
Request(op, c, p, q, snap) ==
    [Idle EXCEPT !.op = op, !.pc = "arrived", !.cart_id = c,
                 !.product_id = p, !.quantity = q, !.pre = snap]

\* The handler returned or raised: the response is ready, the locals are gone.
Done(r, res) ==
    [Idle EXCEPT !.op = r.op, !.pc = "done", !.cart_id = r.cart_id,
                 !.product_id = r.product_id, !.quantity = r.quantity,
                 !.new_cart_id = r.new_cart_id, !.pre = r.pre, !.result = res]

\* Only a request served alone (one with a copy of the collections) is kept
\* until its response is delivered; any other leaves its worker free at once.
Respond(r, res) == IF r.pre.taken THEN Done(r, res) ELSE Idle

Finish(w, res) == req' = [req EXCEPT ![w] = Respond(req[w], res)]

\* The same for a request that names a user in its path or body.
RespondUser(r, res) ==
    IF r.pre.taken THEN [Done(r, res) EXCEPT !.user_id = r.user_id] ELSE Idle

FinishUser(w, res) == req' = [req EXCEPT ![w] = RespondUser(req[w], res)]

Goto(w, pc) == req' = [req EXCEPT ![w].pc = pc]

\* The worker is free, and the stock counters are within the model's bound.
Free(w) ==
    /\ req[w].pc = "idle"
    /\ \A p \in ProductIds : products[p].stock_quantity <= MaxStock

\* The identifiers a request may carry: those given out so far or still to come.
CartPool == {c \in CartIds : c < hist.first_new_cart + hist.new_carts}
ProductPool == {p \in ProductIds : p < hist.first_new_product + MaxNewProducts}

\* No request is in service.
AtRest == \A w \in Workers : req[w].pc \in {"idle", "done"}

(* ------------------------ request body models ------------------------- *)

\* Faulty variant: any quantity passes.
CartItemAdd_any(q) == TRUE

\* CartItemAdd and CartItemUpdate: quantity: int = Field(..., gt=0).  A body that
\* fails validation is answered 422 before the handler runs.
CartItemAdd(q) == q > 0

CartItemUpdate(q) == q > 0

\* The request is refused as it arrives.
Refuse(w, r, res) ==
    /\ Free(w)
    /\ req' = [req EXCEPT ![w] = Respond(r, res)]
    /\ UNCHANGED <<db, hist>>

(* ----------------------- create_cart: POST /carts ---------------------- *)

\* The carts whose user_id is the user.
CartsOf(cs, u) == {c \in CartIds : cs[c].exists /\ cs[c].user_id = u}

\* Requests in service that have yet to insert a cart.
PendingCarts ==
    Cardinality({w \in Workers : /\ req[w].op \in {"checkout", "create_cart"}
                                 /\ req[w].pc \notin {"idle", "done"}
                                 /\ req[w].new_cart_id = None})

\* The request arrives: find_one checks the user exists.  (A request that may go
\* on to insert a cart must find an identifier left.)
CreateCartFindUser(w, u, snap) ==
    /\ Free(w)
    /\ (users[u].exists /\ CartsOf(carts, u) = {})
           => next_cart + PendingCarts \in CartIds
    /\ LET r == [Request("create_cart", None, None, 0, snap) EXCEPT !.user_id = u] IN
       req' = [req EXCEPT ![w] =
           IF users[u].exists THEN [r EXCEPT !.pc = "cc_find_cart"]
           ELSE RespondUser(r, "NotFound")]
    /\ UNCHANGED <<db, hist>>

\* find_one({"user_id": user_id}): "already has a cart".
CreateCartFindCart(w) ==
    /\ req[w].pc = "cc_find_cart"
    /\ IF CartsOf(carts, req[w].user_id) # {}
       THEN FinishUser(w, "AlreadyHasCart")
       ELSE Goto(w, "cc_insert")
    /\ UNCHANGED <<db, hist>>

\* Faulty variant: the insert goes through whatever the collection holds.
CreateCartInsert_unindexed(w) ==
    /\ req[w].pc = "cc_insert"
    /\ next_cart \in CartIds
    /\ carts' = [carts EXCEPT ![next_cart] =
           [exists |-> TRUE, user_id |-> req[w].user_id, items |-> <<>>]]
    /\ next_cart' = next_cart + 1
    /\ req' = [req EXCEPT ![w].pc = "cc_link_user", ![w].new_cart_id = next_cart]
    /\ UNCHANGED <<products, users, next_product, next_user, user_id_unique, hist>>

\* insert_one of the cart; the unique index on carts.user_id refuses a second
\* cart document with the same user_id (DuplicateKeyError, unhandled).
CreateCartInsert(w) ==
    /\ req[w].pc = "cc_insert"
    /\ IF user_id_unique /\ CartsOf(carts, req[w].user_id) # {}
       THEN /\ FinishUser(w, "InternalError")
            /\ UNCHANGED <<carts, next_cart>>
       ELSE /\ next_cart \in CartIds
            /\ carts' = [carts EXCEPT ![next_cart] =
                   [exists |-> TRUE, user_id |-> req[w].user_id, items |-> <<>>]]
            /\ next_cart' = next_cart + 1
            /\ req' = [req EXCEPT ![w].pc = "cc_link_user",
                                  ![w].new_cart_id = next_cart]
    /\ UNCHANGED <<products, users, next_product, next_user, user_id_unique, hist>>

\* {"$set": {"cart_id": cart_id}} on the user, if it is still there.
CreateCartLinkUser(w) ==
    /\ req[w].pc = "cc_link_user"
    /\ LET u == req[w].user_id IN
       users' = IF users[u].exists
                THEN [users EXCEPT ![u].cart_id = req[w].new_cart_id]
                ELSE users
    /\ FinishUser(w, "ok")
    /\ UNCHANGED <<products, carts, next_cart, next_product, next_user, user_id_unique, hist>>

(* ---------------- add_item_to_cart: POST /carts/{id}/items ------------- *)

\* Faulty variant: the check of the quantity against the stock read is dropped.
AddFindProduct_unchecked(w, c, p, q, snap) ==
    /\ Free(w)
    /\ LineQuantity(carts[c].items, p) + q <= MaxLineQty
    /\ LET product == products[p]
           r == Request("add", c, p, q, snap) IN
       req' = [req EXCEPT ![w] =
           IF ~product.exists THEN Respond(r, "NotFound")
           ELSE IF ~product.is_active THEN Respond(r, "Inactive")
           ELSE [r EXCEPT !.pc = "add_merge", !.stock = product.stock_quantity]]
    /\ UNCHANGED <<db, hist>>

\* The request arrives: find_one on the product, then the three checks on the
\* document read.  (An add that is accepted must leave the line within bounds.)
AddFindProduct(w, c, p, q, snap) ==
    /\ Free(w)
    /\ (products[p].is_active /\ q <= products[p].stock_quantity)
           => LineQuantity(carts[c].items, p) + q <= MaxLineQty
    /\ LET product == products[p]
           r == Request("add", c, p, q, snap) IN
       req' = [req EXCEPT ![w] =
           IF ~product.exists THEN Respond(r, "NotFound")
           ELSE IF ~product.is_active THEN Respond(r, "Inactive")
           ELSE IF q > product.stock_quantity THEN Respond(r, "InsufficientStock")
           ELSE [r EXCEPT !.pc = "add_merge", !.stock = product.stock_quantity]]
    /\ UNCHANGED <<db, hist>>

\* Faulty variant: the stock is written first, the cart after it.
AddMerge_stock_first(w) ==
    /\ req[w].pc = "add_merge"
    /\ products' = SetStock(req[w].product_id, req[w].stock - req[w].quantity)
    /\ Goto(w, "add_count")
    /\ UNCHANGED <<carts, users, next_cart, next_product, next_user, user_id_unique, hist>>

\* Faulty variant: the merge never matches a line.
AddMerge_miss(w) ==
    /\ req[w].pc = "add_merge"
    /\ Goto(w, "add_count")
    /\ UNCHANGED <<db, hist>>

\* update_one {"_id", "items.product_id"} $inc: merges into the first matching line.
AddMerge(w) ==
    /\ req[w].pc = "add_merge"
    /\ LET c == req[w].cart_id
           p == req[w].product_id IN
       IF carts[c].exists /\ HasLine(carts[c].items, p)
       THEN /\ LineQuantity(carts[c].items, p) + req[w].quantity <= MaxLineQty
            /\ carts' = [carts EXCEPT ![c].items = IncLine(@, p, req[w].quantity)]
            /\ Goto(w, "add_set_stock")
       ELSE /\ carts' = carts
            /\ Goto(w, "add_count")
    /\ UNCHANGED <<products, users, next_cart, next_product, next_user, user_id_unique, hist>>

\* Faulty variant: the cart is taken to exist.
AddCount_present(w) ==
    /\ req[w].pc = "add_count"
    /\ Goto(w, "add_push")
    /\ UNCHANGED <<db, hist>>

\* modified_count == 0: count_documents tells whether the cart exists.
AddCount(w) ==
    /\ req[w].pc = "add_count"
    /\ IF carts[req[w].cart_id].exists
       THEN Goto(w, "add_push")
       ELSE Finish(w, "NotFound")
    /\ UNCHANGED <<db, hist>>

\* update_one {"_id"} $push: appends a new line, whatever the array holds by now.
AddPush(w) ==
    /\ req[w].pc = "add_push"
    /\ LET c == req[w].cart_id IN
       IF carts[c].exists
       THEN /\ Len(carts[c].items) < MaxLines
            /\ carts' = [carts EXCEPT
                   ![c].items = PushLine(@, req[w].product_id, req[w].quantity)]
            /\ Goto(w, "add_set_stock")
       ELSE /\ carts' = carts
            /\ Finish(w, "UpdateFailed")
    /\ UNCHANGED <<products, users, next_cart, next_product, next_user, user_id_unique, hist>>

\* Faulty variant: one unit is taken off the stock whatever the quantity added.
AddSetStock_one(w) ==
    /\ req[w].pc = "add_set_stock"
    /\ LET new_stock == req[w].stock - 1 IN
       /\ products' = SetStock(req[w].product_id, new_stock)
       /\ req' = [req EXCEPT
              ![w].pc = IF new_stock = 0 THEN "add_set_inactive" ELSE "add_find_cart",
              ![w].stock = 0]
    /\ UNCHANGED <<carts, users, next_cart, next_product, next_user, user_id_unique, hist>>

\* new_stock is computed from the product document read at the start.
AddSetStock(w) ==
    /\ req[w].pc = "add_set_stock"
    /\ LET new_stock == req[w].stock - req[w].quantity IN
       /\ products' = SetStock(req[w].product_id, new_stock)
       /\ req' = [req EXCEPT
              ![w].pc = IF new_stock = 0 THEN "add_set_inactive" ELSE "add_find_cart",
              ![w].stock = 0]
    /\ UNCHANGED <<carts, users, next_cart, next_product, next_user, user_id_unique, hist>>

\* Faulty variant: the product is left active at stock 0.
AddSetInactive_skip(w) ==
    /\ req[w].pc = "add_set_inactive"
    /\ Goto(w, "add_find_cart")
    /\ UNCHANGED <<db, hist>>

AddSetInactive(w) ==
    /\ req[w].pc = "add_set_inactive"
    /\ products' = SetActive(req[w].product_id, FALSE)
    /\ Goto(w, "add_find_cart")
    /\ UNCHANGED <<carts, users, next_cart, next_product, next_user, user_id_unique, hist>>

\* The cart is read back for the response; a cart gone by now has no "_id" to read.
AddFindCart(w) ==
    /\ req[w].pc = "add_find_cart"
    /\ Finish(w, IF carts[req[w].cart_id].exists THEN "ok" ELSE "InternalError")
    /\ UNCHANGED <<db, hist>>

(* -------- remove_item_from_cart: DELETE /carts/{id}/items/{pid} -------- *)

\* Faulty variant: quantity_to_restore is 1 whatever the line holds.
RemoveAggregate_one(w, c, p, snap) ==
    /\ Free(w)
    /\ LET cart == carts[c]
           r == Request("remove", c, p, 0, snap) IN
       req' = [req EXCEPT ![w] =
           IF ~cart.exists THEN Respond(r, "NotFound")
           ELSE IF ~HasLine(cart.items, p) THEN Respond(r, "LineNotFound")
           ELSE [r EXCEPT !.pc = "rm_pull", !.cur = 1]]
    /\ UNCHANGED <<db, hist>>

\* The request arrives: the aggregate pipeline reads the cart and its lines for
\* the product; quantity_to_restore is the quantity of the first of them.
RemoveAggregate(w, c, p, snap) ==
    /\ Free(w)
    /\ LET cart == carts[c]
           r == Request("remove", c, p, 0, snap) IN
       req' = [req EXCEPT ![w] =
           IF ~cart.exists THEN Respond(r, "NotFound")
           ELSE IF ~HasLine(cart.items, p) THEN Respond(r, "LineNotFound")
           ELSE [r EXCEPT !.pc = "rm_pull", !.cur = LineQuantity(cart.items, p)]]
    /\ UNCHANGED <<db, hist>>

\* Faulty variant: the filter has no "_id", and the lines go from every cart.
RemovePull_many(w) ==
    /\ req[w].pc = "rm_pull"
    /\ LET c == req[w].cart_id
           p == req[w].product_id IN
       IF carts[c].exists /\ HasLine(carts[c].items, p)
       THEN /\ carts' = [k \in CartIds |-> [carts[k] EXCEPT !.items = PullLines(@, p)]]
            /\ Goto(w, "rm_inc_stock")
       ELSE /\ carts' = carts
            /\ Finish(w, "UpdateFailed")
    /\ UNCHANGED <<products, users, next_cart, next_product, next_user, user_id_unique, hist>>

RemovePull(w) ==
    /\ req[w].pc = "rm_pull"
    /\ LET c == req[w].cart_id
           p == req[w].product_id IN
       IF carts[c].exists /\ HasLine(carts[c].items, p)
       THEN /\ carts' = [carts EXCEPT ![c].items = PullLines(@, p)]
            /\ Goto(w, "rm_inc_stock")
       ELSE /\ carts' = carts
            /\ Finish(w, "UpdateFailed")
    /\ UNCHANGED <<products, users, next_cart, next_product, next_user, user_id_unique, hist>>

\* Faulty variant: the quantity removed is not given back to the stock.
RemoveIncStock_none(w) ==
    /\ req[w].pc = "rm_inc_stock"
    /\ req' = [req EXCEPT ![w].pc = "rm_activate", ![w].cur = 0]
    /\ UNCHANGED <<db, hist>>

RemoveIncStock(w) ==
    /\ req[w].pc = "rm_inc_stock"
    /\ products' = IncStock(req[w].product_id, req[w].cur)
    /\ req' = [req EXCEPT ![w].pc = "rm_activate", ![w].cur = 0]
    /\ UNCHANGED <<carts, users, next_cart, next_product, next_user, user_id_unique, hist>>

\* Faulty variant: the product is not made active again.
RemoveActivate_skip(w) ==
    /\ req[w].pc = "rm_activate"
    /\ Goto(w, "rm_find_cart")
    /\ UNCHANGED <<db, hist>>

RemoveActivate(w) ==
    /\ req[w].pc = "rm_activate"
    /\ products' = Reactivate(req[w].product_id)
    /\ Goto(w, "rm_find_cart")
    /\ UNCHANGED <<carts, users, next_cart, next_product, next_user, user_id_unique, hist>>

RemoveFindCart(w) ==
    /\ req[w].pc = "rm_find_cart"
    /\ Finish(w, IF carts[req[w].cart_id].exists THEN "ok" ELSE "InternalError")
    /\ UNCHANGED <<db, hist>>

(* ------ update_item_quantity: PUT /carts/{id}/items/{pid} -------------- *)

\* The request arrives: find_one on the product.
UpdateFindProduct(w, c, p, q, snap) ==
    /\ Free(w)
    /\ LET product == products[p]
           r == Request("update", c, p, q, snap) IN
       req' = [req EXCEPT ![w] =
           IF ~product.exists THEN Respond(r, "NotFound")
           ELSE [r EXCEPT !.pc = "up_find_line",
                          !.stock = product.stock_quantity,
                          !.active = product.is_active]]
    /\ UNCHANGED <<db, hist>>

\* Faulty variant: the check of quantity_change against the stock is dropped.
UpdateFindLine_unchecked(w) ==
    /\ req[w].pc = "up_find_line"
    /\ LET cart == carts[req[w].cart_id]
           current_quantity == LineQuantity(cart.items, req[w].product_id) IN
       IF ~cart.exists THEN Finish(w, "NotFound")
       ELSE IF ~HasLine(cart.items, req[w].product_id)
            THEN Finish(w, "LineNotFound")
       ELSE req' = [req EXCEPT ![w].pc = "up_set_line",
                               ![w].cur = current_quantity]
    /\ UNCHANGED <<db, hist>>

\* Faulty variant: a missing line counts as a line of quantity 0.
UpdateFindLine_lineless(w) ==
    /\ req[w].pc = "up_find_line"
    /\ LET cart == carts[req[w].cart_id]
           current_quantity == LineQuantity(cart.items, req[w].product_id)
           quantity_change == req[w].quantity - current_quantity IN
       IF ~cart.exists THEN Finish(w, "NotFound")
       ELSE IF quantity_change > 0 /\ quantity_change > req[w].stock
            THEN Finish(w, "InsufficientStock")
       ELSE req' = [req EXCEPT ![w].pc = "up_set_line",
                               ![w].cur = current_quantity]
    /\ UNCHANGED <<db, hist>>

\* find_one with $elemMatch, then quantity_change and the stock check.
UpdateFindLine(w) ==
    /\ req[w].pc = "up_find_line"
    /\ LET cart == carts[req[w].cart_id]
           current_quantity == LineQuantity(cart.items, req[w].product_id)
           quantity_change == req[w].quantity - current_quantity IN
       IF ~cart.exists THEN Finish(w, "NotFound")
       ELSE IF ~HasLine(cart.items, req[w].product_id)
            THEN Finish(w, "LineNotFound")
       ELSE IF quantity_change > 0 /\ quantity_change > req[w].stock
            THEN Finish(w, "InsufficientStock")
       ELSE req' = [req EXCEPT ![w].pc = "up_set_line",
                               ![w].cur = current_quantity]
    /\ UNCHANGED <<db, hist>>

\* update_one $set on the first matching line; modified_count is 0 when no line
\* matches and when the line already holds that quantity.
UpdateSetLine(w) ==
    /\ req[w].pc = "up_set_line"
    /\ LET c == req[w].cart_id
           p == req[w].product_id IN
       IF /\ carts[c].exists
          /\ HasLine(carts[c].items, p)
          /\ LineQuantity(carts[c].items, p) # req[w].quantity
       THEN /\ carts' = [carts EXCEPT ![c].items = SetLine(@, p, req[w].quantity)]
            /\ Goto(w, "up_set_stock")
       ELSE /\ carts' = carts
            /\ Finish(w, "UpdateFailed")
    /\ UNCHANGED <<products, users, next_cart, next_product, next_user, user_id_unique, hist>>

UpdateSetStock(w) ==
    /\ req[w].pc = "up_set_stock"
    /\ LET quantity_change == req[w].quantity - req[w].cur
           new_stock == req[w].stock - quantity_change IN
       /\ products' = SetStock(req[w].product_id, new_stock)
       /\ req' = [req EXCEPT
              ![w].pc = IF new_stock = 0 THEN "up_set_inactive"
                        ELSE IF new_stock > 0 /\ ~req[w].active THEN "up_set_active"
                        ELSE "up_find_cart",
              ![w].stock = 0, ![w].active = FALSE, ![w].cur = 0]
    /\ UNCHANGED <<carts, users, next_cart, next_product, next_user, user_id_unique, hist>>

UpdateSetInactive(w) ==
    /\ req[w].pc = "up_set_inactive"
    /\ products' = SetActive(req[w].product_id, FALSE)
    /\ Goto(w, "up_find_cart")
    /\ UNCHANGED <<carts, users, next_cart, next_product, next_user, user_id_unique, hist>>

\* Faulty variant: the product is not made active again.
UpdateSetActive_skip(w) ==
    /\ req[w].pc = "up_set_active"
    /\ Goto(w, "up_find_cart")
    /\ UNCHANGED <<db, hist>>

UpdateSetActive(w) ==
    /\ req[w].pc = "up_set_active"
    /\ products' = SetActive(req[w].product_id, TRUE)
    /\ Goto(w, "up_find_cart")
    /\ UNCHANGED <<carts, users, next_cart, next_product, next_user, user_id_unique, hist>>

UpdateFindCart(w) ==
    /\ req[w].pc = "up_find_cart"
    /\ Finish(w, IF carts[req[w].cart_id].exists THEN "ok" ELSE "InternalError")
    /\ UNCHANGED <<db, hist>>

(* ---------------- clear_cart: DELETE /carts/{id}/items ----------------- *)

\* The request arrives: find_one on the cart; an empty cart is returned as it is.
ClearFindCart(w, c, snap) ==
    /\ Free(w)
    /\ LET cart == carts[c]
           r == Request("clear", c, None, 0, snap) IN
       req' = [req EXCEPT ![w] =
           IF ~cart.exists THEN Respond(r, "NotFound")
           ELSE IF cart.items = <<>> THEN Respond(r, "ok")
           ELSE [r EXCEPT !.pc = "cl_set_items",
                          !.pq = product_quantities(cart.items)]]
    /\ UNCHANGED <<db, hist>>

ClearSetItems(w) ==
    /\ req[w].pc = "cl_set_items"
    /\ LET c == req[w].cart_id IN
       carts' = IF carts[c].exists THEN [carts EXCEPT ![c].items = <<>>] ELSE carts
    /\ Goto(w, "cl_inc_stock")
    /\ UNCHANGED <<products, users, next_cart, next_product, next_user, user_id_unique, hist>>

\* Faulty variant: the quantities cleared are not given back to the stock.
ClearIncStock_none(w) ==
    /\ req[w].pc = "cl_inc_stock"
    /\ Goto(w, "cl_activate")
    /\ UNCHANGED <<db, hist>>

\* One pass of the loop over product_quantities: the $inc ...
ClearIncStock(w) ==
    /\ req[w].pc = "cl_inc_stock"
    /\ products' = IncStock(Head(req[w].pq).product_id, Head(req[w].pq).quantity)
    /\ Goto(w, "cl_activate")
    /\ UNCHANGED <<carts, users, next_cart, next_product, next_user, user_id_unique, hist>>

\* Faulty variant: the product is not made active again.
ClearActivate_skip(w) ==
    /\ req[w].pc = "cl_activate"
    /\ IF Tail(req[w].pq) = <<>>
       THEN Finish(w, "ok")
       ELSE req' = [req EXCEPT ![w].pc = "cl_inc_stock", ![w].pq = Tail(@)]
    /\ UNCHANGED <<db, hist>>

\* ... and the conditional reactivation; the response needs no further read.
ClearActivate(w) ==
    /\ req[w].pc = "cl_activate"
    /\ products' = Reactivate(Head(req[w].pq).product_id)
    /\ IF Tail(req[w].pq) = <<>>
       THEN Finish(w, "ok")
       ELSE req' = [req EXCEPT ![w].pc = "cl_inc_stock", ![w].pq = Tail(@)]
    /\ UNCHANGED <<carts, users, next_cart, next_product, next_user, user_id_unique, hist>>

(* ------------------- the cart item routes, as called ------------------- *)

\* POST /carts/{id}/items with a body: validated, then handled.
PostItem(w, c, p, q, snap) ==
    IF CartItemAdd(q)
    THEN AddFindProduct(w, c, p, q, snap)
    ELSE Refuse(w, Request("add", c, p, q, snap), "Unprocessable")

\* PUT /carts/{id}/items/{product_id} with a body: validated, then handled.
PutItem(w, c, p, q, snap) ==
    IF CartItemUpdate(q)
    THEN UpdateFindProduct(w, c, p, q, snap)
    ELSE Refuse(w, Request("update", c, p, q, snap), "Unprocessable")

(* ---------------- delete_cart (checkout): DELETE /carts/{id} ----------- *)

\* Checkouts in service that have yet to insert their new cart.
PendingInserts ==
    Cardinality({w \in Workers : /\ req[w].op = "checkout"
                                 /\ req[w].pc \notin {"idle", "done"}
                                 /\ req[w].new_cart_id = None})

\* The users whose cart_id is the cart.
Owners(us, c) == {u \in UserIds : us[u].exists /\ us[u].cart_id = c}

\* The request arrives: find_one on the cart; its lines are grouped by product.
\* (A checkout that would go on to insert a cart must find an identifier left.)
CheckoutFindCart(w, c, snap) ==
    /\ Free(w)
    /\ (carts[c].exists /\ Owners(users, c) # {} /\ ~user_id_unique)
           => next_cart + PendingInserts \in CartPool
    /\ LET cart == carts[c]
           r == Request("checkout", c, None, 0, snap) IN
       req' = [req EXCEPT ![w] =
           IF ~cart.exists THEN Respond(r, "NotFound")
           ELSE [r EXCEPT !.pc = "co_find_user",
                          !.pq = product_quantities(cart.items)]]
    /\ UNCHANGED <<db, hist>>

\* The pass of the stock loop that comes next, or the step after the loop.
CheckoutLoop(pq) == IF pq = <<>> THEN "co_unset_user" ELSE "co_find_product"

\* Faulty variant: a cart that no user points at is checked out all the same.
CheckoutFindUser_unchecked(w) ==
    /\ req[w].pc = "co_find_user"
    /\ LET owners == Owners(users, req[w].cart_id)
           found == IF owners = {} THEN UserIds ELSE owners IN
       req' = [req EXCEPT
           ![w].pc = CheckoutLoop(req[w].pq),
           ![w].user_id = CHOOSE u \in found : \A v \in found : u <= v]
    /\ UNCHANGED <<db, hist>>

\* find_one({"cart_id": cart_id}): the first user that points at the cart.
CheckoutFindUser(w) ==
    /\ req[w].pc = "co_find_user"
    /\ LET owners == Owners(users, req[w].cart_id) IN
       IF owners = {} THEN Finish(w, "NotFound")
       ELSE req' = [req EXCEPT
                ![w].pc = CheckoutLoop(req[w].pq),
                ![w].user_id = CHOOSE u \in owners : \A v \in owners : u <= v]
    /\ UNCHANGED <<db, hist>>

CheckoutFindProduct(w) ==
    /\ req[w].pc = "co_find_product"
    /\ LET product == products[Head(req[w].pq).product_id] IN
       IF ~product.exists
       THEN req' = [req EXCEPT ![w].pc = CheckoutLoop(Tail(req[w].pq)),
                               ![w].pq = Tail(@)]
       ELSE req' = [req EXCEPT ![w].pc = "co_set_stock",
                               ![w].stock = product.stock_quantity]
    /\ UNCHANGED <<db, hist>>

Max(a, b) == IF a >= b THEN a ELSE b

\* Faulty variant: the stock is left as the adds left it.
CheckoutSetStock_none(w) ==
    /\ req[w].pc = "co_set_stock"
    /\ req' = [req EXCEPT ![w].pc = CheckoutLoop(Tail(req[w].pq)),
                          ![w].pq = Tail(@), ![w].stock = 0]
    /\ UNCHANGED <<db, hist>>

\* Faulty variant: the subtraction is not clamped at 0.
CheckoutSetStock_unclamped(w) ==
    /\ req[w].pc = "co_set_stock"
    /\ LET new_stock == req[w].stock - Head(req[w].pq).quantity IN
       /\ products' = SetStock(Head(req[w].pq).product_id, new_stock)
       /\ IF new_stock = 0
          THEN req' = [req EXCEPT ![w].pc = "co_set_inactive", ![w].stock = 0]
          ELSE req' = [req EXCEPT ![w].pc = CheckoutLoop(Tail(req[w].pq)),
                                  ![w].pq = Tail(@), ![w].stock = 0]
    /\ UNCHANGED <<carts, users, next_cart, next_product, next_user, user_id_unique, hist>>

CheckoutSetStock(w) ==
    /\ req[w].pc = "co_set_stock"
    /\ LET new_stock == Max(0, req[w].stock - Head(req[w].pq).quantity) IN
       /\ products' = SetStock(Head(req[w].pq).product_id, new_stock)
       /\ IF new_stock = 0
          THEN req' = [req EXCEPT ![w].pc = "co_set_inactive", ![w].stock = 0]
          ELSE req' = [req EXCEPT ![w].pc = CheckoutLoop(Tail(req[w].pq)),
                                  ![w].pq = Tail(@), ![w].stock = 0]
    /\ UNCHANGED <<carts, users, next_cart, next_product, next_user, user_id_unique, hist>>

\* Faulty variant: the product is left active at stock 0.
CheckoutSetInactive_skip(w) ==
    /\ req[w].pc = "co_set_inactive"
    /\ req' = [req EXCEPT ![w].pc = CheckoutLoop(Tail(req[w].pq)), ![w].pq = Tail(@)]
    /\ UNCHANGED <<db, hist>>

CheckoutSetInactive(w) ==
    /\ req[w].pc = "co_set_inactive"
    /\ products' = SetActive(Head(req[w].pq).product_id, FALSE)
    /\ req' = [req EXCEPT ![w].pc = CheckoutLoop(Tail(req[w].pq)), ![w].pq = Tail(@)]
    /\ UNCHANGED <<carts, users, next_cart, next_product, next_user, user_id_unique, hist>>

\* {"$unset": {"cart_id": ""}} on the user found.
CheckoutUnsetUser(w) ==
    /\ req[w].pc = "co_unset_user"
    /\ LET u == req[w].user_id IN
       users' = IF users[u].exists THEN [users EXCEPT ![u].cart_id = None] ELSE users
    /\ Goto(w, "co_insert_cart")
    /\ UNCHANGED <<products, carts, next_cart, next_product, next_user, user_id_unique, hist>>

\* insert_one of the new cart; the unique index on carts.user_id refuses a second
\* cart document with the same user_id (DuplicateKeyError, unhandled).
CheckoutInsertCart(w) ==
    /\ req[w].pc = "co_insert_cart"
    /\ IF user_id_unique
          /\ \E c \in CartIds : carts[c].exists /\ carts[c].user_id = req[w].user_id
       THEN /\ Finish(w, "InternalError")
            /\ UNCHANGED <<carts, next_cart>>
       ELSE /\ next_cart \in CartPool
            /\ carts' = [carts EXCEPT ![next_cart] =
                   [exists |-> TRUE, user_id |-> req[w].user_id, items |-> <<>>]]
            /\ next_cart' = next_cart + 1
            /\ req' = [req EXCEPT ![w].pc = "co_link_user",
                                  ![w].new_cart_id = next_cart]
    /\ UNCHANGED <<products, users, next_product, next_user, user_id_unique, hist>>

\* Faulty variant: the user is linked to the old cart again.
CheckoutLinkUser_old(w) ==
    /\ req[w].pc = "co_link_user"
    /\ LET u == req[w].user_id IN
       users' = IF users[u].exists
                THEN [users EXCEPT ![u].cart_id = req[w].cart_id]
                ELSE users
    /\ Goto(w, "co_read_user")
    /\ UNCHANGED <<products, carts, next_cart, next_product, next_user, user_id_unique, hist>>

CheckoutLinkUser(w) ==
    /\ req[w].pc = "co_link_user"
    /\ LET u == req[w].user_id IN
       users' = IF users[u].exists
                THEN [users EXCEPT ![u].cart_id = req[w].new_cart_id]
                ELSE users
    /\ Goto(w, "co_read_user")
    /\ UNCHANGED <<products, carts, next_cart, next_product, next_user, user_id_unique, hist>>

\* The user is read back only to be printed.
CheckoutReadUser(w) ==
    /\ req[w].pc = "co_read_user"
    /\ Goto(w, "co_delete_cart")
    /\ UNCHANGED <<db, hist>>

CheckoutDeleteCart(w) ==
    /\ req[w].pc = "co_delete_cart"
    /\ carts' = [carts EXCEPT ![req[w].cart_id] = NoCart]
    /\ Finish(w, "ok")
    /\ UNCHANGED <<products, users, next_cart, next_product, next_user, user_id_unique, hist>>

(* --------------------------- product routes ---------------------------- *)

\* "Always derive is_active from stock_quantity"
ProductDoc(s) == [exists |-> TRUE, stock_quantity |-> s, is_active |-> s > 0]

\* create_product: the request arrives and insert_one stores the document.
CreateProductInsert(w, s, snap) ==
    /\ Free(w)
    /\ next_product \in ProductPool
    /\ products' = [products EXCEPT ![next_product] = ProductDoc(s)]
    /\ next_product' = next_product + 1
    /\ req' = [req EXCEPT ![w] =
           Respond(Request("create_product", None, next_product, s, snap), "ok")]
    /\ UNCHANGED <<carts, users, next_cart, next_user, user_id_unique, hist>>

\* update_product: the request arrives and find_one checks the product exists.
PutProductFind(w, p, s, snap) ==
    /\ Free(w)
    /\ LET r == Request("put_product", None, p, s, snap) IN
       req' = [req EXCEPT ![w] =
           IF products[p].exists THEN [r EXCEPT !.pc = "put_replace"]
           ELSE Respond(r, "NotFound")]
    /\ UNCHANGED <<db, hist>>

\* replace_one; modified_count is 0 when nothing matched or the document is the
\* same in every field (name, description, price and category included).
PutProductReplace(w) ==
    /\ req[w].pc = "put_replace"
    /\ LET p == req[w].product_id
           doc == ProductDoc(req[w].quantity) IN
       IF ~products[p].exists
       THEN /\ products' = products
            /\ Finish(w, "ok")
       ELSE /\ products' = [products EXCEPT ![p] = doc]
            /\ \/ Goto(w, "put_find_again")
               \/ products[p] = doc /\ Finish(w, "ok")
    /\ UNCHANGED <<carts, users, next_cart, next_product, next_user, user_id_unique, hist>>

PutProductFindAgain(w) ==
    /\ req[w].pc = "put_find_again"
    /\ Finish(w, IF products[req[w].product_id].exists THEN "ok" ELSE "InternalError")
    /\ UNCHANGED <<db, hist>>

\* A patch carries a new stock_quantity, or only other fields, or no field at all.
OtherFields == -1
NoFields == -2

\* patch_product: the request arrives and find_one checks the product exists.
PatchProductFind(w, p, s, snap) ==
    /\ Free(w)
    /\ LET r == Request("patch_product", None, p, s, snap) IN
       req' = [req EXCEPT ![w] =
           IF ~products[p].exists THEN Respond(r, "NotFound")
           ELSE IF s = NoFields THEN Respond(r, "ok")
           ELSE [r EXCEPT !.pc = "patch_update"]]
    /\ UNCHANGED <<db, hist>>

\* One $set carries stock_quantity together with the is_active derived from it.
PatchProductUpdate(w) ==
    /\ req[w].pc = "patch_update"
    /\ LET p == req[w].product_id IN
       products' = IF products[p].exists /\ req[w].quantity >= 0
                   THEN [products EXCEPT ![p] = ProductDoc(req[w].quantity)]
                   ELSE products
    /\ Goto(w, "patch_find_again")
    /\ UNCHANGED <<carts, users, next_cart, next_product, next_user, user_id_unique, hist>>

PatchProductFindAgain(w) ==
    /\ req[w].pc = "patch_find_again"
    /\ Finish(w, IF products[req[w].product_id].exists THEN "ok" ELSE "InternalError")
    /\ UNCHANGED <<db, hist>>

\* delete_product: the request arrives and find_one checks the product exists.
DeleteProductFind(w, p, snap) ==
    /\ Free(w)
    /\ LET r == Request("delete_product", None, p, 0, snap) IN
       req' = [req EXCEPT ![w] =
           IF products[p].exists THEN [r EXCEPT !.pc = "dp_delete"]
           ELSE Respond(r, "NotFound")]
    /\ UNCHANGED <<db, hist>>

\* delete_one; deleted_count == 0 raises a 404 that the except clause turns into 500.
DeleteProductDelete(w) ==
    /\ req[w].pc = "dp_delete"
    /\ LET p == req[w].product_id IN
       IF products[p].exists
       THEN /\ products' = [products EXCEPT ![p] = NoProduct]
            /\ Finish(w, "ok")
       ELSE /\ products' = products
            /\ Finish(w, "InternalError")
    /\ UNCHANGED <<carts, users, next_cart, next_product, next_user, user_id_unique, hist>>

(* ----------------------------- user routes ----------------------------- *)

\* create_user: the request arrives and insert_one stores user.model_dump(), the
\* name and the email; the response is UserResponse(id, name, email).
CreateUserInsert(w, snap) ==
    /\ Free(w)
    /\ next_user \in UserIds
    /\ users' = [users EXCEPT ![next_user] = [exists |-> TRUE, cart_id |-> None]]
    /\ next_user' = next_user + 1
    /\ req' = [req EXCEPT ![w] =
           RespondUser([Request("create_user", None, None, 0, snap)
                            EXCEPT !.user_id = next_user], "ok")]
    /\ UNCHANGED <<products, carts, next_cart, next_product, user_id_unique, hist>>

\* delete_user: the request arrives and find_one checks the user exists.
DeleteUserFind(w, u, snap) ==
    /\ Free(w)
    /\ LET r == [Request("delete_user", None, None, 0, snap) EXCEPT !.user_id = u] IN
       req' = [req EXCEPT ![w] =
           IF users[u].exists THEN [r EXCEPT !.pc = "du_delete"]
           ELSE RespondUser(r, "NotFound")]
    /\ UNCHANGED <<db, hist>>

\* delete_one on the users collection, and on no other collection.
DeleteUserDelete(w) ==
    /\ req[w].pc = "du_delete"
    /\ LET u == req[w].user_id IN
       IF users[u].exists
       THEN /\ users' = [users EXCEPT ![u] = NoUser]
            /\ FinishUser(w, "ok")
       ELSE /\ users' = users
            /\ FinishUser(w, "InternalError")
    /\ UNCHANGED <<products, carts, next_cart, next_product, next_user, user_id_unique, hist>>

\* User(_id=..., name=..., email=...): the model is built from three fields of
\* the document; cart_id is not passed and takes its default.
User(id) == [id |-> id, cart_id |-> None]

\* get_user: find_one on the user; the response is the User model's fields.
get_user(u) ==
    IF users[u].exists
    THEN [status |-> "ok", id |-> User(u).id, cart_id |-> User(u).cart_id]
    ELSE [status |-> "NotFound", id |-> None, cart_id |-> None]

(* ------------------------- the state machine --------------------------- *)

RECURSIVE Sum(_, _)
Sum(f, S) ==
    IF S = {} THEN 0
    ELSE LET x == CHOOSE x \in S : TRUE IN f[x] + Sum(f, S \ {x})

\* The stock over all products, and the quantities over all lines of all carts.
TotalStock(prods) == Sum([p \in ProductIds |-> prods[p].stock_quantity], ProductIds)
TotalLines(cs) == Sum([c \in CartIds |-> SumLines(cs[c].items)], CartIds)

\* What is recorded about the requests served so far (no handler reads it):
\* the stock every product started with; the first identifiers still to give out;
\* for the audited runs, the run of successful adds to one (cart, product) in
\* progress and the totals of what checkouts did; for the runs of overlapping
\* requests, the collections as they were at the start.
NoRun == [cart_id |-> None, product_id |-> None, total |-> 0, adds |-> 0,
          stock |-> 0, active |-> FALSE, items |-> <<>>]
NoLedger == [finalized |-> 0, subtracted |-> 0, disposed |-> 0]
NoHist == [initial |-> <<>>, first_new_cart |-> 0, first_new_product |-> 0,
           new_carts |-> MaxNewCarts, run |-> NoRun, ledger |-> NoLedger,
           start |-> NoSnap]

\* The collections after np products were created, nu users were created and each
\* was given a cart (POST /carts), before any cart request; the unique index on
\* carts.user_id is or is not built.
InitDb(np, nu) ==
    /\ products \in [ProductIds -> {NoProduct} \cup {ProductDoc(s) : s \in 0..MaxStock}]
    /\ \A p \in ProductIds : products[p].exists <=> p <= np
    /\ next_product = np + 1
    /\ carts = [c \in CartIds |->
                   IF c <= nu
                   THEN [exists |-> TRUE, user_id |-> c, items |-> <<>>]
                   ELSE NoCart]
    /\ users = [u \in UserIds |->
                   IF u <= nu THEN [exists |-> TRUE, cart_id |-> u] ELSE NoUser]
    /\ next_cart = nu + 1
    /\ next_user = nu + 1
    /\ user_id_unique \in BOOLEAN
    /\ req = [w \in Workers |-> Idle]
    /\ hist = [NoHist EXCEPT
                  !.initial = [p \in ProductIds |-> products[p].stock_quantity],
                  !.first_new_cart = nu + 1,
                  !.first_new_product = np + 1]

\* The response is delivered; the worker is free for the next request.
Return(w) ==
    /\ req[w].pc = "done"
    /\ req' = [req EXCEPT ![w] = Idle]
    /\ UNCHANGED <<db, hist>>

\* The run of adds after the request r, served alone, returned: a successful add
\* to the run's (cart, product) extends it; a successful add to a cart that held
\* no line for the product starts one, keeping what the product and the cart were
\* before; any other request ends it.
NextRun(r) ==
    IF r.op = "add" /\ r.result = "ok"
    THEN IF hist.run.cart_id = r.cart_id /\ hist.run.product_id = r.product_id
         THEN [hist.run EXCEPT !.total = @ + r.quantity, !.adds = @ + 1]
         ELSE IF ~HasLine(r.pre.carts[r.cart_id].items, r.product_id)
         THEN [cart_id |-> r.cart_id, product_id |-> r.product_id,
               total |-> r.quantity, adds |-> 1,
               stock |-> r.pre.products[r.product_id].stock_quantity,
               active |-> r.pre.products[r.product_id].is_active,
               items |-> r.pre.carts[r.cart_id].items]
         ELSE NoRun
    ELSE NoRun

\* The totals after the request r, served alone, returned.  A checkout that got
\* past its two lookups adds: the quantities of the cart's lines whose product
\* exists (finalized), what its stock loop took off the stock counters
\* (subtracted), and the quantities of the lines of the cart it deleted (disposed).
NextLedger(r) ==
    IF r.op = "checkout" /\ r.result \in {"ok", "InternalError"}
    THEN LET lines == r.pre.carts[r.cart_id].items IN
         [finalized |-> hist.ledger.finalized
              + SumLines(SelectSeq(lines, LAMBDA l : r.pre.products[l.product_id].exists)),
          subtracted |-> hist.ledger.subtracted
              + TotalStock(r.pre.products) - TotalStock(products),
          disposed |-> hist.ledger.disposed
              + (IF carts[r.cart_id].exists THEN 0 ELSE SumLines(lines))]
    ELSE hist.ledger

\* The response is delivered and the request is entered in the history.
ReturnAudited(w) ==
    /\ req[w].pc = "done"
    /\ req' = [req EXCEPT ![w] = Idle]
    /\ hist' = [hist EXCEPT !.run = NextRun(req[w]), !.ledger = NextLedger(req[w])]
    /\ UNCHANGED db

\* The later steps of the handlers, whichever request the worker serves.
AddSteps(w) ==
    \/ AddMerge(w) \/ AddCount(w) \/ AddPush(w)
    \/ AddSetStock(w) \/ AddSetInactive(w) \/ AddFindCart(w)

RemoveSteps(w) ==
    \/ RemovePull(w) \/ RemoveIncStock(w) \/ RemoveActivate(w) \/ RemoveFindCart(w)

UpdateSteps(w) ==
    \/ UpdateFindLine(w) \/ UpdateSetLine(w) \/ UpdateSetStock(w)
    \/ UpdateSetInactive(w) \/ UpdateSetActive(w) \/ UpdateFindCart(w)

ClearSteps(w) ==
    \/ ClearSetItems(w) \/ ClearIncStock(w) \/ ClearActivate(w)

CheckoutSteps(w) ==
    \/ CheckoutFindUser(w) \/ CheckoutFindProduct(w)
    \/ CheckoutSetStock(w) \/ CheckoutSetInactive(w) \/ CheckoutUnsetUser(w)
    \/ CheckoutInsertCart(w) \/ CheckoutLinkUser(w) \/ CheckoutReadUser(w)
    \/ CheckoutDeleteCart(w)

CartHandlers(w) ==
    \/ AddSteps(w) \/ RemoveSteps(w) \/ UpdateSteps(w)
    \/ ClearSteps(w) \/ CheckoutSteps(w)

ProductHandlers(w) ==
    \/ PutProductReplace(w) \/ PutProductFindAgain(w)
    \/ PatchProductUpdate(w) \/ PatchProductFindAgain(w)

\* The requests that may arrive at a free worker; snap is the copy of the
\* collections kept with a request that is served alone.
CartRequests(w, snap) ==
    \/ \E c \in CartPool, p \in ProductPool, q \in 1..MaxQty :
           \/ AddFindProduct(w, c, p, q, snap)
           \/ UpdateFindProduct(w, c, p, q, snap)
    \/ \E c \in CartPool, p \in ProductPool : RemoveAggregate(w, c, p, snap)
    \/ \E c \in CartPool : ClearFindCart(w, c, snap)
    \/ \E c \in CartPool : CheckoutFindCart(w, c, snap)

CreateRequests(w, snap) ==
    \E s \in 0..MaxStock : CreateProductInsert(w, s, snap)

EditRequests(w, snap) ==
    \/ \E p \in ProductPool, s \in 0..MaxStock : PutProductFind(w, p, s, snap)
    \/ \E p \in ProductPool, s \in (0..MaxStock) \cup {OtherFields, NoFields} :
           PatchProductFind(w, p, s, snap)

\* Spec: one user with a cart and an empty catalogue; requests arrive at any time
\* and are served concurrently, their steps interleaving.
Init == InitDb(0, 1)

Next ==
    \E w \in Workers :
        \/ CartRequests(w, NoSnap)
        \/ CreateRequests(w, NoSnap)
        \/ EditRequests(w, NoSnap)
        \/ CartHandlers(w)
        \/ ProductHandlers(w)

Spec == Init /\ [][Next]_vars

\* The worker that serves the requests of the runs where they come one at a time.
Solo == CHOOSE w \in Workers : \A v \in Workers : w <= v

\* SpecSerial: two users with their carts and one product; cart requests and
\* product creations, served one at a time, each with a copy of the collections
\* as they were when it arrived.
InitSerial == InitDb(1, 2)

NextSerial ==
    \/ CartRequests(Solo, Snap)
    \/ CreateRequests(Solo, Snap)
    \/ CartHandlers(Solo)
    \/ Return(Solo)

SpecSerial == InitSerial /\ [][NextSerial]_vars

\* SpecSerialFair: SpecSerial where a checkout in service keeps taking its steps:
\* the handler awaits one database call after another, takes no lock and waits
\* on no other request.
SpecSerialFair == InitSerial /\ [][NextSerial]_vars /\ WF_vars(CheckoutSteps(Solo))

\* SpecClosed: two users with their carts and two products, and nothing but cart
\* requests, served one at a time and entered in the history as they return.
InitClosed == InitDb(2, 2)

NextClosed ==
    \/ CartRequests(Solo, Snap)
    \/ CartHandlers(Solo)
    \/ ReturnAudited(Solo)

SpecClosed == InitClosed /\ [][NextClosed]_vars

\* SpecAddRace: every worker serves one add-item request for a cart that exists,
\* all for the same product and the same quantity, sent together: each arrives
\* before any of the others has written anything.
AddRaceRequest(w, c, p, q) ==
    /\ carts[c].exists
    /\ \A v \in Workers :
           \/ req[v].pc = "idle"
           \/ /\ req[v].pc = "add_merge"
              /\ req[v].product_id = p
              /\ req[v].quantity = q
    /\ AddFindProduct(w, c, p, q, Snap)

InitAddRace == InitDb(1, 2)

NextAddRace ==
    \E w \in Workers :
        \/ \E c \in CartPool, p \in ProductPool, q \in 1..MaxQty :
               AddRaceRequest(w, c, p, q)
        \/ AddSteps(w)

SpecAddRace == InitAddRace /\ [][NextAddRace]_vars

\* SpecRestock: two users with their carts and one product; add-item and
\* update-quantity requests, and PUT / PATCH requests that set the product's
\* stock in between, served one at a time.
InitRestock == InitDb(1, 2)

NextRestock ==
    \/ \E c \in CartPool, p \in ProductPool, q \in 1..MaxQty :
           \/ AddFindProduct(Solo, c, p, q, Snap)
           \/ UpdateFindProduct(Solo, c, p, q, Snap)
    \/ EditRequests(Solo, Snap)
    \/ AddSteps(Solo)
    \/ UpdateSteps(Solo)
    \/ ProductHandlers(Solo)
    \/ Return(Solo)

SpecRestock == InitRestock /\ [][NextRestock]_vars

\* SpecDeleted: two users with their carts and two products; add-item,
\* remove-item, checkout and delete-product requests, served one at a time.
InitDeleted == InitDb(2, 2)

NextDeleted ==
    \/ \E c \in CartPool, p \in ProductPool, q \in 1..MaxQty :
           AddFindProduct(Solo, c, p, q, Snap)
    \/ \E c \in CartPool, p \in ProductPool : RemoveAggregate(Solo, c, p, Snap)
    \/ \E c \in CartPool : CheckoutFindCart(Solo, c, Snap)
    \/ \E p \in ProductPool : DeleteProductFind(Solo, p, Snap)
    \/ AddSteps(Solo)
    \/ RemoveSteps(Solo)
    \/ CheckoutSteps(Solo)
    \/ DeleteProductDelete(Solo)
    \/ Return(Solo)

SpecDeleted == InitDeleted /\ [][NextDeleted]_vars

\* SpecAccounts: one user with a cart and one product; users are created and
\* deleted, carts are created, filled and checked out.  Create-cart requests may
\* overlap one another; every other request is served alone.
Alone(w) == \A v \in Workers \ {w} : req[v].pc = "idle"

AmongCreateCarts(w) ==
    \A v \in Workers \ {w} : req[v].pc = "idle" \/ req[v].op = "create_cart"

CreateCartSteps(w) ==
    \/ CreateCartFindCart(w) \/ CreateCartInsert(w) \/ CreateCartLinkUser(w)

InitAccounts == InitDb(1, 1)

NextAccounts ==
    \E w \in Workers :
        \/ /\ Alone(w)
           /\ \/ CreateUserInsert(w, Snap)
              \/ \E u \in UserIds : DeleteUserFind(w, u, Snap)
              \/ \E c \in CartIds : CheckoutFindCart(w, c, Snap)
              \/ \E c \in CartIds, p \in ProductPool, q \in 1..MaxQty :
                     AddFindProduct(w, c, p, q, Snap)
        \/ /\ AmongCreateCarts(w)
           /\ \E u \in UserIds : CreateCartFindUser(w, u, Snap)
        \/ DeleteUserDelete(w)
        \/ CreateCartSteps(w)
        \/ AddSteps(w)
        \/ CheckoutSteps(w)
        \/ Return(w)

SpecAccounts == InitAccounts /\ [][NextAccounts]_vars

\* What a request leaves of the products and the carts, d, when it is served
\* alone from arrival to response.
ServedAdd(d, c, p, q) ==
    LET product == d.products[p]
        new_stock == product.stock_quantity - q IN
    IF \/ ~CartItemAdd(q)
       \/ ~product.exists
       \/ ~product.is_active
       \/ q > product.stock_quantity
       \/ ~d.carts[c].exists
    THEN d
    ELSE [products |-> [d.products EXCEPT
                           ![p].stock_quantity = new_stock,
                           ![p].is_active = IF new_stock = 0 THEN FALSE ELSE @],
          carts |-> [d.carts EXCEPT
                        ![c].items = IF HasLine(@, p)
                                     THEN IncLine(@, p, q)
                                     ELSE PushLine(@, p, q)]]

ServedRemove(d, c, p) ==
    LET product == d.products[p]
        quantity_to_restore == LineQuantity(d.carts[c].items, p)
        new_stock == product.stock_quantity + quantity_to_restore IN
    IF ~d.carts[c].exists \/ ~HasLine(d.carts[c].items, p)
    THEN d
    ELSE [products |-> IF product.exists
                       THEN [d.products EXCEPT
                                ![p].stock_quantity = new_stock,
                                ![p].is_active = IF new_stock > 0 THEN TRUE ELSE @]
                       ELSE d.products,
          carts |-> [d.carts EXCEPT ![c].items = PullLines(@, p)]]

ServedUpdate(d, c, p, q) ==
    LET product == d.products[p]
        current_quantity == LineQuantity(d.carts[c].items, p)
        quantity_change == q - current_quantity
        new_stock == product.stock_quantity - quantity_change IN
    IF \/ ~CartItemUpdate(q)
       \/ ~product.exists
       \/ ~d.carts[c].exists
       \/ ~HasLine(d.carts[c].items, p)
       \/ (quantity_change > 0 /\ quantity_change > product.stock_quantity)
       \/ quantity_change = 0
    THEN d
    ELSE [products |-> [d.products EXCEPT
                           ![p].stock_quantity = new_stock,
                           ![p].is_active = IF new_stock = 0 THEN FALSE
                                            ELSE IF new_stock > 0 THEN TRUE
                                            ELSE @],
          carts |-> [d.carts EXCEPT ![c].items = SetLine(@, p, q)]]

Served(d, r) ==
    CASE r.op = "add" -> ServedAdd(d, r.cart_id, r.product_id, r.quantity)
      [] r.op = "remove" -> ServedRemove(d, r.cart_id, r.product_id)
      [] r.op = "update" -> ServedUpdate(d, r.cart_id, r.product_id, r.quantity)
      [] OTHER -> d

\* SpecOverlap: two users and two products, each cart holding no line, one line
\* or one unit of each product.  Each worker serves one item request of one cart, so that two
\* requests for different carts overlap in every way; the bodies carry any
\* quantity from 0 up.
CartOf(w) == w

StartLines ==
    {<<>>, [p \in ProductIds |-> CartItem(p, 1)]}
        \cup {<<CartItem(p, q)>> : p \in ProductIds, q \in 1..MaxLineQty}

InitOverlap ==
    /\ products \in [ProductIds -> {ProductDoc(s) : s \in 0..MaxStock}]
    /\ next_product = Cardinality(ProductIds) + 1
    /\ carts \in [CartIds -> {NoCart} \cup
                     {[exists |-> TRUE, user_id |-> u, items |-> l] :
                          u \in UserIds, l \in StartLines}]
    /\ \A c \in CartIds :
           IF c \in UserIds
           THEN carts[c].exists /\ carts[c].user_id = c
           ELSE carts[c] = NoCart
    /\ users = [u \in UserIds |-> [exists |-> TRUE, cart_id |-> u]]
    /\ next_cart = Cardinality(UserIds) + 1
    /\ next_user = Cardinality(UserIds) + 1
    /\ user_id_unique = TRUE
    /\ req = [w \in Workers |-> Idle]
    /\ hist = [NoHist EXCEPT
                  !.initial = [p \in ProductIds |-> products[p].stock_quantity],
                  !.first_new_cart = next_cart,
                  !.first_new_product = next_product,
                  !.start = Snap]

ItemSteps(w) == AddSteps(w) \/ UpdateSteps(w) \/ RemoveSteps(w)

NextOverlap ==
    \E w \in Workers :
        \/ \E p \in ProductIds, q \in 0..MaxQty :
               \/ PostItem(w, CartOf(w), p, q, Snap)
               \/ PutItem(w, CartOf(w), p, q, Snap)
        \/ \E p \in ProductIds : RemoveAggregate(w, CartOf(w), p, Snap)
        \/ ItemSteps(w)

SpecOverlap == InitOverlap /\ [][NextOverlap]_vars

\* SpecReserve: two users with their carts and two products; add-item,
\* update-quantity, remove-item and clear-cart requests and no other, served one
\* at a time.
InitReserve == InitDb(2, 2)

NextReserve ==
    \/ \E c \in CartPool, p \in ProductPool, q \in 1..MaxQty :
           \/ AddFindProduct(Solo, c, p, q, Snap)
           \/ UpdateFindProduct(Solo, c, p, q, Snap)
    \/ \E c \in CartPool, p \in ProductPool : RemoveAggregate(Solo, c, p, Snap)
    \/ \E c \in CartPool : ClearFindCart(Solo, c, Snap)
    \/ ItemSteps(Solo)
    \/ ClearSteps(Solo)
    \/ Return(Solo)

SpecReserve == InitReserve /\ [][NextReserve]_vars

\* SpecSameCart: one user whose cart holds some lines, two products, and one
\* round of two requests on that cart that may overlap: a checkout, and a second
\* checkout or an add-item.  Each checkout may insert its own new cart.
InitSameCart ==
    /\ products \in [ProductIds -> {ProductDoc(s) : s \in 0..MaxStock}]
    /\ next_product = Cardinality(ProductIds) + 1
    /\ carts \in [CartIds -> {NoCart} \cup
                     {[exists |-> TRUE, user_id |-> 1, items |-> l] : l \in StartLines}]
    /\ \A c \in CartIds : carts[c].exists <=> c = 1
    /\ users = [u \in UserIds |->
                   IF u = 1 THEN [exists |-> TRUE, cart_id |-> 1] ELSE NoUser]
    /\ next_cart = 2
    /\ next_user = 2
    /\ user_id_unique \in BOOLEAN
    /\ req = [w \in Workers |-> Idle]
    /\ hist = [NoHist EXCEPT
                  !.initial = [p \in ProductIds |-> products[p].stock_quantity],
                  !.first_new_cart = next_cart,
                  !.first_new_product = next_product,
                  !.new_carts = Cardinality(Workers),
                  !.start = Snap]

NextSameCart ==
    \E w \in Workers :
        \/ CheckoutFindCart(w, 1, Snap)
        \/ /\ w # Solo
           /\ \E p \in ProductIds, q \in 1..MaxQty : AddFindProduct(w, 1, p, q, Snap)
        \/ CheckoutSteps(w)
        \/ AddSteps(w)

SpecSameCart == InitSameCart /\ [][NextSameCart]_vars

(* ------------------------------ properties ---------------------------- *)

\* C1: in every reachable state, under any interleaving of add-item,
\* update-quantity, remove-item, clear-cart, checkout and product create / put /
\* patch requests, every product's stock_quantity is >= 0.
C1_StockNonNegative ==
    \A p \in ProductIds : products[p].stock_quantity >= 0

\* A checkout has just written stock 0 while an add-item of another worker is
\* about to write the stock it computed from its own earlier read.
C1_Witness ==
    \E w, v \in Workers :
        /\ req[w].pc = "co_set_inactive"
        /\ products[Head(req[w].pq).product_id].stock_quantity = 0
        /\ req[v].pc = "add_set_stock"
        /\ req[v].product_id = Head(req[w].pq).product_id

\* C2: whenever no request is in progress, every product has is_active true
\* exactly when its stock_quantity is > 0, after any interleaving of add-item,
\* update-quantity, remove-item, clear-cart, checkout and product create / put /
\* patch requests that ran to completion.
C2_ActiveIffInStock ==
    AtRest =>
        \A p \in ProductIds :
            products[p].exists =>
                (products[p].is_active <=> products[p].stock_quantity > 0)

\* C3: when every worker runs one add-item request for the same product in stock,
\* each for delta units, concurrently, and together they ask for more than the
\* stock, exactly stock \div delta of them succeed, the others fail with
\* InsufficientStock, and the quantity placed into carts is at most the stock.
C3_ConcurrentAdds ==
    LET p == req[Solo].product_id
        delta == req[Solo].quantity
        stock == hist.initial[p]
        succeeded == {w \in Workers : req[w].result = "ok"} IN
    (/\ \A w \in Workers : req[w].pc = "done"
     /\ stock > 0
     /\ Cardinality(Workers) * delta > stock)
    => /\ Cardinality(succeeded) = stock \div delta
       /\ \A w \in Workers \ succeeded : req[w].result = "InsufficientStock"
       /\ Cardinality(succeeded) * delta <= stock

\* C6: in every reachable state no cart holds two lines with the same
\* product_id, add-item requests for the same (cart, product) that overlap while
\* the cart has no line for the product included.
C6_OneLinePerProduct ==
    \A c \in CartIds, p \in ProductIds : LineCount(carts[c].items, p) <= 1

\* The add-item request served alone whose response is ready, if there is one.
AddDone == req[Solo].op = "add" /\ req[Solo].pc = "done"

\* Nothing in the three collections differs from what the request found.
Untouched ==
    /\ products = req[Solo].pre.products
    /\ carts = req[Solo].pre.carts
    /\ users = req[Solo].pre.users

C5_OneLineSumOfAdds ==
    (req[Solo].pc = "idle" /\ hist.run.adds > 0) =>
        LET items == carts[hist.run.cart_id].items IN
        /\ LineCount(items, hist.run.product_id) = 1
        /\ LineQuantity(items, hist.run.product_id) = hist.run.total

\* Two successful adds in a row went to one (cart, product).
C5_Witness ==
    /\ req[Solo].pc = "idle"
    /\ hist.run.adds = 2
    /\ LineQuantity(carts[hist.run.cart_id].items, hist.run.product_id) = 2

\* C7: an add-item request for an active product whose quantity exceeds the
\* product's stock fails with InsufficientStock and leaves the cart's lines, the
\* product's stock_quantity and the product's is_active as they were.
C7_InsufficientStock ==
    LET r == req[Solo]
        product == r.pre.products[r.product_id] IN
    (/\ AddDone
     /\ product.exists
     /\ product.is_active
     /\ r.quantity > product.stock_quantity)
    => (r.result = "InsufficientStock" /\ Untouched)

\* An add of more than the stock of an active product was refused.
C7_Witness ==
    /\ AddDone
    /\ req[Solo].result = "InsufficientStock"
    /\ req[Solo].pre.products[req[Solo].product_id].is_active
    /\ req[Solo].quantity > req[Solo].pre.products[req[Solo].product_id].stock_quantity
    /\ HasLine(carts[req[Solo].cart_id].items, req[Solo].product_id)

\* C7 as stated: an add-item request whose quantity exceeds the product's current
\* stock fails with InsufficientStock and changes nothing.
C7_AsStated ==
    LET r == req[Solo]
        product == r.pre.products[r.product_id] IN
    (/\ AddDone
     /\ product.exists
     /\ r.quantity > product.stock_quantity)
    => (r.result = "InsufficientStock" /\ Untouched)

\* C8: a successful add-item of quantity q, run with no other request in flight,
\* lowers the product's stock_quantity by exactly q, raises the cart's one line
\* for the product by exactly q, and changes no other product and no other cart.
C8_SuccessfulAdd ==
    LET r == req[Solo] IN
    (AddDone /\ r.result = "ok") =>
        /\ 0 < r.quantity
        /\ r.quantity <= r.pre.products[r.product_id].stock_quantity
        /\ r.pre.products[r.product_id].is_active
        /\ products[r.product_id].stock_quantity
               = r.pre.products[r.product_id].stock_quantity - r.quantity
        /\ LineCount(carts[r.cart_id].items, r.product_id) = 1
        /\ LineQuantity(carts[r.cart_id].items, r.product_id)
               = LineQuantity(r.pre.carts[r.cart_id].items, r.product_id) + r.quantity
        /\ PullLines(carts[r.cart_id].items, r.product_id)
               = PullLines(r.pre.carts[r.cart_id].items, r.product_id)
        /\ \A p \in ProductIds \ {r.product_id} : products[p] = r.pre.products[p]
        /\ \A c \in CartIds \ {r.cart_id} : carts[c] = r.pre.carts[c]
        /\ users = r.pre.users

\* An add succeeded on a cart that held a line of another product, while another
\* cart held a line too.
C8_Witness ==
    /\ AddDone
    /\ req[Solo].result = "ok"
    /\ \E p \in ProductIds \ {req[Solo].product_id} :
           HasLine(carts[req[Solo].cart_id].items, p)
    /\ \E c \in CartIds \ {req[Solo].cart_id} : carts[c].items # <<>>

\* The remove-item request that follows a single add-item to a cart that held no
\* line for the product, and removes that line, has its response ready.
RemoveAfterAdd ==
    /\ req[Solo].op = "remove"
    /\ req[Solo].pc = "done"
    /\ hist.run.adds = 1
    /\ hist.run.cart_id = req[Solo].cart_id
    /\ hist.run.product_id = req[Solo].product_id

\* C9: add-item(cart, p, q) on a cart without a line for p, followed by
\* remove-item(cart, p), returns the product's stock_quantity, the product's
\* is_active and the cart's lines to what they were before the add.
C9_AddThenRemove ==
    RemoveAfterAdd =>
        /\ req[Solo].result = "ok"
        /\ products[hist.run.product_id].stock_quantity = hist.run.stock
        /\ products[hist.run.product_id].is_active = hist.run.active
        /\ carts[hist.run.cart_id].items = hist.run.items

\* The add took all the stock, and the cart holds another line besides.
C9_Witness ==
    /\ RemoveAfterAdd
    /\ hist.run.total = hist.run.stock
    /\ hist.run.items # <<>>
    /\ products[hist.run.product_id].is_active

\* C10: an add-item that takes all of a product's stock leaves it at stock 0 and
\* inactive, and an add-item for a product at stock 0, whatever the quantity,
\* fails as Inactive and changes nothing.
C10_SoldOut ==
    LET r == req[Solo]
        product == r.pre.products[r.product_id] IN
    /\ (AddDone /\ r.result = "ok" /\ r.quantity = product.stock_quantity)
       => (/\ products[r.product_id].stock_quantity = 0
           /\ ~products[r.product_id].is_active)
    /\ (AddDone /\ product.exists /\ product.stock_quantity = 0)
       => (r.result = "Inactive" /\ Untouched)

\* An add was refused as Inactive for a product whose stock sits in a cart line.
C10_Witness ==
    /\ AddDone
    /\ req[Solo].result = "Inactive"
    /\ req[Solo].pre.products[req[Solo].product_id].stock_quantity = 0
    /\ \E c \in CartIds : HasLine(carts[c].items, req[Solo].product_id)

\* The request of the given kind, served alone, whose response is ready.
DoneOf(op) == req[Solo].op = op /\ req[Solo].pc = "done"

\* C11: a successful remove-item deletes the line from the cart, leaving its
\* other lines, and raises the product's stock_quantity by exactly the quantity
\* the line held when it was removed, whatever adds and updates built the line.
C11_RemoveRestores ==
    LET r == req[Solo] IN
    (DoneOf("remove") /\ r.result = "ok") =>
        /\ HasLine(r.pre.carts[r.cart_id].items, r.product_id)
        /\ ~HasLine(carts[r.cart_id].items, r.product_id)
        /\ carts[r.cart_id].items = PullLines(r.pre.carts[r.cart_id].items, r.product_id)
        /\ products[r.product_id].stock_quantity
               = r.pre.products[r.product_id].stock_quantity
                 + LineQuantity(r.pre.carts[r.cart_id].items, r.product_id)

\* A line of quantity 2 was removed from a cart that holds another line.
C11_Witness ==
    /\ DoneOf("remove")
    /\ req[Solo].result = "ok"
    /\ LineQuantity(req[Solo].pre.carts[req[Solo].cart_id].items, req[Solo].product_id) = 2
    /\ carts[req[Solo].cart_id].items # <<>>

\* C12: when every worker runs one add-item of quantity 1 for the same cart and
\* the same product, concurrently, and the product's stock is the number of
\* workers, all succeed and the final state has stock 0, is_active false and a
\* single cart line holding that number, for every interleaving of their steps.
C12_AllSucceed ==
    LET c == req[Solo].cart_id
        p == req[Solo].product_id
        k == Cardinality(Workers) IN
    (/\ \A w \in Workers : /\ req[w].pc = "done"
                           /\ req[w].cart_id = c
                           /\ req[w].product_id = p
                           /\ req[w].quantity = 1
     /\ hist.initial[p] = k)
    => /\ \A w \in Workers : req[w].result = "ok"
       /\ products[p].stock_quantity = 0
       /\ ~products[p].is_active
       /\ LineCount(carts[c].items, p) = 1
       /\ LineQuantity(carts[c].items, p) = k

\* The update-quantity request served alone whose response is ready, for a line
\* that the cart held when it arrived; LineBefore is the quantity of that line.
LineBefore == LineQuantity(req[Solo].pre.carts[req[Solo].cart_id].items, req[Solo].product_id)

UpdateDone ==
    /\ DoneOf("update")
    /\ req[Solo].pre.products[req[Solo].product_id].exists
    /\ req[Solo].pre.carts[req[Solo].cart_id].exists
    /\ HasLine(req[Solo].pre.carts[req[Solo].cart_id].items, req[Solo].product_id)

\* C13: an update-quantity that lowers a line from c to n (0 < n < c) succeeds
\* whatever the product's stock, sets the line to n, leaves the other lines, and
\* raises the stock_quantity by exactly c - n, the product being active after it.
C13_LowerQuantity ==
    LET r == req[Solo] IN
    (UpdateDone /\ r.quantity < LineBefore) =>
        /\ r.result = "ok"
        /\ carts[r.cart_id].items = SetLine(r.pre.carts[r.cart_id].items, r.product_id, r.quantity)
        /\ products[r.product_id].stock_quantity
               = r.pre.products[r.product_id].stock_quantity + LineBefore - r.quantity
        /\ products[r.product_id].is_active

\* A line was lowered while the product was sold out and inactive.
C13_Witness ==
    /\ UpdateDone
    /\ req[Solo].quantity < LineBefore
    /\ req[Solo].result = "ok"
    /\ ~req[Solo].pre.products[req[Solo].product_id].is_active
    /\ req[Solo].pre.products[req[Solo].product_id].stock_quantity = 0

\* C14: an update-quantity that raises a line by delta fails with
\* InsufficientStock exactly when delta exceeds the product's stock, and then the
\* cart and the product are unchanged; when delta equals the stock it succeeds
\* and the product ends at stock 0 with is_active false.
C14_RaiseQuantity ==
    LET r == req[Solo]
        delta == r.quantity - LineBefore
        stock == r.pre.products[r.product_id].stock_quantity IN
    (UpdateDone /\ delta > 0) =>
        /\ r.result = "InsufficientStock" <=> delta > stock
        /\ r.result = "InsufficientStock" => Untouched
        /\ delta <= stock =>
               /\ r.result = "ok"
               /\ LineQuantity(carts[r.cart_id].items, r.product_id) = r.quantity
               /\ products[r.product_id].stock_quantity = stock - delta
        /\ delta = stock =>
               /\ products[r.product_id].stock_quantity = 0
               /\ ~products[r.product_id].is_active

\* A line was raised by all the stock there was.
C14_Witness ==
    /\ UpdateDone
    /\ req[Solo].quantity - LineBefore > 0
    /\ req[Solo].quantity - LineBefore
           = req[Solo].pre.products[req[Solo].product_id].stock_quantity
    /\ req[Solo].result = "ok"

\* C15: an update-quantity whose new quantity is the line's current quantity is a
\* no-op: it succeeds and changes neither the cart nor the product.
C15_SameQuantity ==
    (UpdateDone /\ req[Solo].quantity = LineBefore) =>
        (req[Solo].result = "ok" /\ Untouched)

\* The total quantity the lines hold for a product.
Held(items, p) == SumLines(SelectSeq(items, LAMBDA l : l.product_id = p))

\* C16: a clear-cart on a non-empty cart leaves the cart with no lines and raises
\* each product's stock_quantity by the total quantity the cart held for it,
\* leaving active every product it held and untouched every product it did not.
C16_ClearRestores ==
    LET r == req[Solo]
        lines == r.pre.carts[r.cart_id].items IN
    (DoneOf("clear") /\ r.pre.carts[r.cart_id].exists /\ lines # <<>>) =>
        /\ r.result = "ok"
        /\ carts = [r.pre.carts EXCEPT ![r.cart_id].items = <<>>]
        /\ users = r.pre.users
        /\ \A p \in ProductIds :
               IF Held(lines, p) = 0
               THEN products[p] = r.pre.products[p]
               ELSE /\ products[p].stock_quantity
                          = r.pre.products[p].stock_quantity + Held(lines, p)
                    /\ products[p].is_active

\* A cart with lines of two products, one of them sold out, was cleared.
C16_Witness ==
    /\ DoneOf("clear")
    /\ req[Solo].result = "ok"
    /\ Len(req[Solo].pre.carts[req[Solo].cart_id].items) = 2
    /\ \E p \in ProductIds :
           /\ Held(req[Solo].pre.carts[req[Solo].cart_id].items, p) > 0
           /\ ~req[Solo].pre.products[p].is_active

\* The user the checkout served alone found pointing at its cart.
CheckoutUser ==
    LET owners == Owners(req[Solo].pre.users, req[Solo].cart_id) IN
    CHOOSE u \in owners : \A v \in owners : u <= v

\* C17: after a checkout that completes, the old cart no longer exists, a new
\* cart exists that is empty and belongs to the same user, the identity returned
\* is the new cart's and differs from the old cart's, and the user's cart_id, as
\* read back through the user lookup, is the new cart's identity.
C17_CheckoutRotates ==
    LET r == req[Solo] IN
    (DoneOf("checkout") /\ r.result = "ok") =>
        /\ ~carts[r.cart_id].exists
        /\ r.new_cart_id \in CartIds \ {r.cart_id}
        /\ carts[r.new_cart_id].exists
        /\ carts[r.new_cart_id].items = <<>>
        /\ carts[r.new_cart_id].user_id = CheckoutUser
        /\ get_user(CheckoutUser).status = "ok"
        /\ get_user(CheckoutUser).cart_id = r.new_cart_id

\* The checkout served alone that got past its two lookups: its response is ready.
CheckoutDone ==
    /\ DoneOf("checkout")
    /\ req[Solo].result \in {"ok", "InternalError"}

\* C18: a checkout sets every product that has a line in the cart to
\* max(0, stock_quantity - quantity in the cart), inactive when that is 0, and
\* leaves every product that has no line in the cart as it was.
C18_CheckoutStock ==
    LET r == req[Solo]
        lines == r.pre.carts[r.cart_id].items IN
    CheckoutDone =>
        \A p \in ProductIds :
            IF Held(lines, p) = 0
            THEN products[p] = r.pre.products[p]
            ELSE /\ products[p].stock_quantity
                       = Max(0, r.pre.products[p].stock_quantity - Held(lines, p))
                 /\ products[p].is_active
                       = (r.pre.products[p].is_active /\ products[p].stock_quantity > 0)

\* A checkout took the last unit of an active product, another product existing.
C18_Witness ==
    /\ CheckoutDone
    /\ \E p \in ProductIds :
           /\ Held(req[Solo].pre.carts[req[Solo].cart_id].items, p) > 0
           /\ req[Solo].pre.products[p].is_active
           /\ products[p].stock_quantity = 0
           /\ \E o \in ProductIds \ {p} : products[o].exists

\* The checkout that follows a single add-item to its cart, which held no line
\* for the product before, has its response ready.
CheckoutAfterAdd ==
    /\ CheckoutDone
    /\ hist.run.adds = 1
    /\ hist.run.cart_id = req[Solo].cart_id

C20_CheckoutUnowned ==
    (DoneOf("checkout") /\ Owners(req[Solo].pre.users, req[Solo].cart_id) = {}) =>
        (req[Solo].result = "NotFound" /\ Untouched)

\* A second checkout of a cart that an earlier checkout deleted was refused.
C20_Witness ==
    /\ DoneOf("checkout")
    /\ req[Solo].result = "NotFound"
    /\ req[Solo].cart_id < hist.first_new_cart
    /\ ~carts[req[Solo].cart_id].exists

\* The lines of the cart a checkout served alone found, and those of them whose
\* product was gone.
CheckoutLines == req[Solo].pre.carts[req[Solo].cart_id].items

DeletedLines ==
    {i \in 1..Len(CheckoutLines) :
        ~req[Solo].pre.products[CheckoutLines[i].product_id].exists}

\* C21: a checkout of a cart that a user points at and that holds a line for a
\* deleted product reports success: the old cart is gone, the user is on a new
\* empty cart, every product of the other lines is at max(0, stock - quantity)
\* and the deleted product is still absent.
C21_SkipsDeleted ==
    LET r == req[Solo] IN
    (/\ DoneOf("checkout")
     /\ r.pre.carts[r.cart_id].exists
     /\ Owners(r.pre.users, r.cart_id) # {}
     /\ DeletedLines # {}) =>
        /\ r.result = "ok"
        /\ ~carts[r.cart_id].exists
        /\ r.new_cart_id \in CartIds \ {r.cart_id}
        /\ carts[r.new_cart_id] =
               [exists |-> TRUE, user_id |-> CheckoutUser, items |-> <<>>]
        /\ users[CheckoutUser].cart_id = r.new_cart_id
        /\ \A p \in ProductIds :
               IF r.pre.products[p].exists /\ Held(CheckoutLines, p) > 0
               THEN products[p].stock_quantity
                        = Max(0, r.pre.products[p].stock_quantity - Held(CheckoutLines, p))
               ELSE products[p] = r.pre.products[p]

\* No worker is part-way through a checkout.
NoCheckoutInProgress ==
    \A w \in Workers : req[w].op = "checkout" => req[w].pc \in {"idle", "done"}

\* C22: whenever no checkout is in progress, every existing cart's user_id names
\* an existing user whose cart_id is that cart's identity.
C22_CartLinksUser ==
    NoCheckoutInProgress =>
        \A c \in CartIds :
            carts[c].exists =>
                /\ carts[c].user_id \in UserIds
                /\ users[carts[c].user_id].exists
                /\ users[carts[c].user_id].cart_id = c

\* C23: a create-user request that succeeded has created an empty cart whose
\* user_id is the new user, and the cart_id of the user, in the response and in
\* the collection, is that cart's identity.
C23_UserGetsCart ==
    \A w \in Workers :
        (req[w].op = "create_user" /\ req[w].pc = "done" /\ req[w].result = "ok") =>
            /\ req[w].new_cart_id \in CartIds
            /\ carts[req[w].new_cart_id] =
                   [exists |-> TRUE, user_id |-> req[w].user_id, items |-> <<>>]
            /\ users[req[w].user_id].cart_id = req[w].new_cart_id

\* C24: with the unique index on carts.user_id that the application builds when
\* it starts, whenever no request is in progress at most one cart exists per
\* user, create-cart requests for the same user that overlap included; and a
\* create-cart for an existing user who has a cart when it arrives fails and
\* inserts no cart.
C24_OneCartPerUser ==
    /\ (user_id_unique /\ AtRest) =>
           \A u \in UserIds : Cardinality(CartsOf(carts, u)) <= 1
    /\ \A w \in Workers :
           (/\ req[w].op = "create_cart"
            /\ req[w].pc = "done"
            /\ req[w].pre.users[req[w].user_id].exists
            /\ CartsOf(req[w].pre.carts, req[w].user_id) # {}) =>
               /\ req[w].result = "AlreadyHasCart"
               /\ req[w].new_cart_id = None
               /\ user_id_unique =>
                      CartsOf(carts, req[w].user_id)
                          = CartsOf(req[w].pre.carts, req[w].user_id)

\* Two create-cart requests for one user overlapped: one inserted the cart, the
\* other was refused by the index, and both have returned.
C24_Witness ==
    /\ user_id_unique
    /\ AtRest
    /\ \E w, v \in Workers :
           /\ req[w].op = "create_cart" /\ req[w].result = "InternalError"
           /\ req[v].op = "create_cart" /\ req[v].result = "ok"
           /\ req[v].user_id = req[w].user_id

\* C25: in every reachable state every line of every cart has quantity > 0.
C25_PositiveLines ==
    \A c \in CartIds :
        \A i \in 1..Len(carts[c].items) : carts[c].items[i].quantity > 0

\* An add-item and an update-quantity that carried quantity 0 were both refused,
\* while the cart holds a line.
C25_Witness ==
    /\ \E w \in Workers :
           /\ req[w].op = "add" /\ req[w].quantity = 0
           /\ req[w].result = "Unprocessable"
    /\ \E w \in Workers :
           /\ req[w].op = "update" /\ req[w].quantity = 0
           /\ req[w].result = "Unprocessable"
           /\ HasLine(carts[req[w].cart_id].items, req[w].product_id)

\* Every worker has served its request; the products and carts as they are, as
\* they were at the start, and as the requests leave them when they are served
\* one after the other, in either order.
AllDone == \A w \in Workers : req[w].pc = "done"

Store == [products |-> products, carts |-> carts]

Start == [products |-> hist.start.products, carts |-> hist.start.carts]

SerialOutcomes ==
    {Served(Served(Start, req[o[1]]), req[o[2]]) :
        o \in {x \in Workers \X Workers : x[1] # x[2]}}

\* C27: two overlapping item requests for different carts that touch one product
\* leave its stock_quantity as running them in some serial order would.
C27_StockSerialized ==
    (AllDone /\ \A w, v \in Workers : req[w].product_id = req[v].product_id) =>
        \E d \in SerialOutcomes :
            \A p \in ProductIds :
                products[p].stock_quantity = d.products[p].stock_quantity

\* The request of worker w is for another product than every other request.
OwnProduct(w) ==
    \A v \in Workers \ {w} :
        req[v].op = "none" \/ req[v].product_id # req[w].product_id

\* C28: two item requests for different carts and different products never block
\* each other (whatever the progress of the other, a request in service can take
\* its next step) and every interleaving of their steps leaves the products and
\* the carts as serving them one after the other, in either order, does.
C28_Independent ==
    /\ \A w \in Workers :
           (req[w].pc \notin {"idle", "done"} /\ OwnProduct(w)) => ENABLED ItemSteps(w)
    /\ (AllDone /\ \A w \in Workers : OwnProduct(w)) =>
           \A d \in SerialOutcomes : Store = d

\* An add-item and a remove-item for different carts and products both succeeded,
\* the remove having arrived between the add's cart write and its stock write.
C28_Witness ==
    /\ AllDone
    /\ \E w \in Workers, v \in Workers :
           /\ req[w].op = "add" /\ req[w].result = "ok"
           /\ req[v].op = "remove" /\ req[v].result = "ok"
           /\ req[v].product_id # req[w].product_id
           /\ req[v].pre.carts[req[w].cart_id] # hist.start.carts[req[w].cart_id]
           /\ req[v].pre.products = hist.start.products

\* The quantity of a product in the lines of all carts.
Reserved(p) == Sum([c \in CartIds |-> Held(carts[c].items, p)], CartIds)

\* C26: when add-item, update-quantity, remove-item and clear-cart requests are
\* served one at a time, after each request and for every product, stock_quantity
\* plus the quantity of the product in the lines of all carts is the product's
\* initial stock.
C26_StockPlusReserved ==
    req[Solo].pc \in {"idle", "done"} =>
        \A p \in ProductIds :
            products[p].stock_quantity + Reserved(p) = hist.initial[p]

\* A cart of two lines was cleared while the other cart holds a line.
C26_Witness ==
    /\ DoneOf("clear")
    /\ req[Solo].result = "ok"
    /\ Len(req[Solo].pre.carts[req[Solo].cart_id].items) = 2
    /\ \E p \in ProductIds : Reserved(p) > 0

\* C29: at every point of an add-item served alone, the product's stock is
\* reduced by the request only if the cart already holds the quantity; between
\* the two writes (where an abandoned add stays) the cart shows the quantity and
\* the stock is as it was.
C29_CartBeforeStock ==
    LET r == req[Solo]
        line == Held(carts[r.cart_id].items, r.product_id)
        before == Held(r.pre.carts[r.cart_id].items, r.product_id) IN
    (r.op = "add" /\ r.pc \notin {"idle", "done"}) =>
        /\ line \in {before, before + r.quantity}
        /\ products[r.product_id] # r.pre.products[r.product_id]
               => line = before + r.quantity
        /\ r.pc = "add_set_stock" =>
               /\ line = before + r.quantity
               /\ products = r.pre.products

\* An add-item has merged its quantity into a line and has yet to write the stock.
C29_Witness ==
    /\ req[Solo].op = "add"
    /\ req[Solo].pc = "add_set_stock"
    /\ HasLine(req[Solo].pre.carts[req[Solo].cart_id].items, req[Solo].product_id)
    /\ products[req[Solo].product_id].stock_quantity > 0

\* C30: at every point of an update-quantity served alone that raises a line,
\* the cart shows the raised quantity only if the product's stock is already
\* reduced by the difference.
C30_ReserveBeforeLine ==
    LET r == req[Solo]
        line == Held(carts[r.cart_id].items, r.product_id)
        before == Held(r.pre.carts[r.cart_id].items, r.product_id) IN
    (r.op = "update" /\ r.pc # "idle" /\ line > before) =>
        products[r.product_id].stock_quantity
            = r.pre.products[r.product_id].stock_quantity - (line - before)

\* C31: at every point of a checkout served alone its steps have taken effect in
\* the order stock loop, detach, insert, relink, delete: up to the detach the
\* users and carts are as they were; between detach and relink the user has no
\* cart_id and the old cart is there; between relink and delete the user points
\* at the new cart, and the old cart is there with no user pointing at it; and
\* no user's cart_id ever names a cart that does not exist.
C31_CheckoutOrder ==
    LET r == req[Solo]
        u == r.user_id
        detached == [r.pre.users EXCEPT ![u].cart_id = None] IN
    /\ \A v \in UserIds :
           (users[v].exists /\ users[v].cart_id # None) => carts[users[v].cart_id].exists
    /\ (r.op = "checkout" /\ r.pc \notin {"idle", "done"}) =>
           /\ r.pc \in {"co_find_user", "co_find_product", "co_set_stock",
                        "co_set_inactive", "co_unset_user"} =>
                  /\ users = r.pre.users
                  /\ carts = r.pre.carts
           /\ r.pc \in {"co_find_user", "co_find_product"} /\ r.pq = product_quantities(CheckoutLines)
                  => products = r.pre.products
           /\ r.pc \in {"co_unset_user", "co_insert_cart", "co_link_user",
                        "co_read_user", "co_delete_cart"} =>
                  \A p \in ProductIds :
                      products[p].stock_quantity =
                          IF r.pre.products[p].exists
                          THEN Max(0, r.pre.products[p].stock_quantity - Held(CheckoutLines, p))
                          ELSE 0
           /\ r.pc = "co_insert_cart" =>
                  /\ users = detached
                  /\ carts = r.pre.carts
           /\ r.pc = "co_link_user" =>
                  /\ users = detached
                  /\ carts = [r.pre.carts EXCEPT ![r.new_cart_id] =
                                 [exists |-> TRUE, user_id |-> u, items |-> <<>>]]
           /\ r.pc \in {"co_read_user", "co_delete_cart"} =>
                  /\ users = [r.pre.users EXCEPT ![u].cart_id = r.new_cart_id]
                  /\ carts = [r.pre.carts EXCEPT ![r.new_cart_id] =
                                 [exists |-> TRUE, user_id |-> u, items |-> <<>>]]
                  /\ carts[r.cart_id].exists
                  /\ Owners(users, r.cart_id) = {}

\* A checkout of a cart with a line has relinked the user and has yet to delete
\* the old cart.
C31_Witness ==
    /\ req[Solo].op = "checkout"
    /\ req[Solo].pc = "co_delete_cart"
    /\ CheckoutLines # <<>>
    /\ carts[req[Solo].cart_id].exists
    /\ users[req[Solo].user_id].cart_id = req[Solo].new_cart_id

\* C32: an add-item to a cart that does not exist creates no cart and changes no
\* product, and fails with NotFound when the product is missing or is active with
\* enough stock, with Inactive when the product is inactive, and with
\* InsufficientStock when the quantity exceeds the stock of an active product:
\* the product is looked at before the cart.
C32_AddToMissingCart ==
    LET r == req[Solo]
        product == r.pre.products[r.product_id] IN
    (AddDone /\ ~r.pre.carts[r.cart_id].exists) =>
        /\ Untouched
        /\ r.result = IF ~product.exists THEN "NotFound"
                      ELSE IF ~product.is_active THEN "Inactive"
                      ELSE IF r.quantity > product.stock_quantity THEN "InsufficientStock"
                      ELSE "NotFound"

\* An add-item of an available product to a cart that does not exist was refused
\* with NotFound.
C32_Witness ==
    /\ AddDone
    /\ ~req[Solo].pre.carts[req[Solo].cart_id].exists
    /\ req[Solo].pre.products[req[Solo].product_id].is_active
    /\ req[Solo].quantity <= req[Solo].pre.products[req[Solo].product_id].stock_quantity
    /\ req[Solo].result = "NotFound"
    /\ ~carts[req[Solo].cart_id].exists

\* C32 as stated: an add-item to a cart that does not exist fails with NotFound,
\* creates no cart and leaves the product's stock_quantity and is_active as they
\* were.
C32_AsStated ==
    (AddDone /\ ~req[Solo].pre.carts[req[Solo].cart_id].exists) =>
        (req[Solo].result = "NotFound" /\ Untouched)

\* C33: a remove-item or an update-quantity for a product with no line in the
\* existing cart changes nothing, and fails with LineNotFound, except that an
\* update-quantity naming a product that does not exist fails with NotFound: it
\* looks for the product before it looks for the line.
C33_NoLine ==
    LET r == req[Solo] IN
    (/\ DoneOf("remove") \/ DoneOf("update")
     /\ r.pre.carts[r.cart_id].exists
     /\ ~HasLine(r.pre.carts[r.cart_id].items, r.product_id))
    => /\ Untouched
       /\ r.result = IF r.op = "update" /\ ~r.pre.products[r.product_id].exists
                     THEN "NotFound"
                     ELSE "LineNotFound"

\* An update-quantity for a product in stock found the cart without a line for
\* it, the cart holding another line.
C33_Witness ==
    /\ DoneOf("update")
    /\ req[Solo].result = "LineNotFound"
    /\ req[Solo].pre.products[req[Solo].product_id].stock_quantity >= req[Solo].quantity
    /\ carts[req[Solo].cart_id].exists
    /\ carts[req[Solo].cart_id].items # <<>>

\* C33 as stated: a remove-item or an update-quantity for a product that has no
\* line in the existing cart fails with LineNotFound and changes nothing.
C33_AsStated ==
    LET r == req[Solo] IN
    (/\ DoneOf("remove") \/ DoneOf("update")
     /\ r.pre.carts[r.cart_id].exists
     /\ ~HasLine(r.pre.carts[r.cart_id].items, r.product_id))
    => (r.result = "LineNotFound" /\ Untouched)

\* C34: a remove-item for a line whose product has been deleted reports NotFound
\* to the caller, not success.
C34_ReleaseReportsMissing ==
    LET r == req[Solo] IN
    (/\ DoneOf("remove")
     /\ r.pre.carts[r.cart_id].exists
     /\ HasLine(r.pre.carts[r.cart_id].items, r.product_id)
     /\ ~r.pre.products[r.product_id].exists)
    => r.result = "NotFound"

\* C35: when two checkouts of the same cart overlap (both find the cart and its
\* user), at most one reports success, each product's stock is reduced by the
\* cart's quantity at most once, exactly one new cart is created, and the user
\* ends linked to it.
C35_FinalizedOnce ==
    LET lines == hist.start.carts[1].items
        new == {c \in CartIds : carts[c].exists /\ ~hist.start.carts[c].exists} IN
    (\A w \in Workers : /\ req[w].op = "checkout"
                        /\ req[w].pc = "done"
                        /\ req[w].result \in {"ok", "InternalError"})
    => /\ Cardinality({w \in Workers : req[w].result = "ok"}) <= 1
       /\ \A p \in ProductIds :
              products[p].stock_quantity >=
                  Max(0, hist.start.products[p].stock_quantity - Held(lines, p))
       /\ Cardinality(new) = 1
       /\ users[1].cart_id \in new

\* C36: when an add-item overlaps a checkout of the same cart and both have
\* ended, the quantity the add reserved was among the quantities the checkout
\* finalized, or is in a line of a cart that exists, or the add failed before it
\* reduced the stock.
C36_NoReservationLost ==
    LET co == req[Solo]
        w == CHOOSE v \in Workers : v # Solo
        add == req[w]
        before == Held(hist.start.carts[1].items, add.product_id) IN
    (/\ co.op = "checkout" /\ co.pc = "done"
     /\ add.op = "add" /\ add.pc = "done")
    => \/ Held(co.pre.carts[1].items, add.product_id) = before + add.quantity
       \/ \E c \in CartIds :
              /\ carts[c].exists
              /\ Held(carts[c].items, add.product_id) = before + add.quantity
       \/ add.result \in {"NotFound", "Inactive", "InsufficientStock", "UpdateFailed"}

\* C37: at no point of a checkout do two carts with the same user_id exist, and
\* the checkout comes to insert the new cart only when no cart carries the
\* user's identity.
C37_InsertWhenFree ==
    LET r == req[Solo] IN
    (r.op = "checkout" /\ r.pc \notin {"idle", "done"}) =>
        /\ \A u \in UserIds : Cardinality(CartsOf(carts, u)) <= 1
        /\ r.pc = "co_insert_cart" => CartsOf(carts, r.user_id) = {}

\* C38: a checkout that has found its cart and the user that owns it, and keeps
\* taking steps, eventually completes: it reports success, the user is linked to
\* the new cart and the old cart is deleted.
C38_CheckoutCompletes ==
    (/\ req[Solo].op = "checkout"
     /\ req[Solo].pc \notin {"idle", "done", "co_find_user"})
    ~> (/\ req[Solo].op = "checkout"
        /\ req[Solo].pc = "done"
        /\ req[Solo].result = "ok"
        /\ \E u \in UserIds : /\ users[u].exists
                              /\ users[u].cart_id = req[Solo].new_cart_id
        /\ \E c \in CartIds : c = req[Solo].cart_id /\ ~carts[c].exists)

====
